---- MODULE Spec2Model ----
(***************************************************************************)
(* Model of prepare_full_dataset.py: the batch pipeline that converts the  *)
(* Helen, Pexels, AFW, Menpo2D, LaPa and FASSEG datasets into one YOLO     *)
(* corpus (image pool, label pool, train/val manifests, data.yaml).        *)
(*                                                                         *)
(* File names are sequences of tokens (single characters, "_", ".", "/"    *)
(* and whole extension words), so that splitext, split("_"), basename,     *)
(* unidecode and glob prefix matching are computed as the code computes    *)
(* them.  Real numbers are exact fractions <<numerator, denominator>>.     *)
(***************************************************************************)
EXTENDS Integers, Sequences, FiniteSets, TLC

VARIABLES
    tree,       \* the input directory tree of this run (never modified)
    pc,         \* position of the script
    run,        \* 1 = first run, 2 = second run over the same tree
    todo,       \* what the current loop has not visited yet
    cur,        \* the sample being processed, between its two steps
    skip_imgs,  \* Helen multi-face skip list
    images,     \* unified image pool: file name -> source image
    labels,     \* unified label pool: file name -> label file content
    lists,      \* the per-dataset train / val name lists
    shuf,       \* what is the same in both runs: the permutations the seeded
                \* generator yields and the order of the directory listings
    manifest,   \* images.txt / labels.txt of both splits
    yaml,       \* the 'names' mapping of data.yaml
    prev,       \* outputs of the first run, kept for comparison
    geo         \* Geometry Normalizer workbench: one contour and its box

vars == <<tree, pc, run, todo, cur, skip_imgs, images, labels, lists, shuf,
          manifest, yaml, prev, geo>>

----------------------------------------------------------------------------
(* Generic helpers *)

Range(a, b) == [i \in 1..(b - a) |-> a + i - 1]

SeqToSet(s) == {s[i] : i \in DOMAIN s}

RECURSIVE Flatten(_)
Flatten(ss) == IF ss = <<>> THEN <<>> ELSE Head(ss) \o Flatten(Tail(ss))

Orderings(S) == {s \in [1..Cardinality(S) -> S] : SeqToSet(s) = S}

Perms(n) == {p \in [1..n -> 1..n] : SeqToSet(p) = 1..n}

Permute(s, p) == [i \in 1..Len(s) |-> s[p[i]]]

MinOf(S) == CHOOSE m \in S : \A x \in S : m <= x

MaxOf(S) == CHOOSE m \in S : \A x \in S : m >= x

----------------------------------------------------------------------------
(* File names *)

\* index of the last "." that is not the first token, 0 when there is none
DotIndex(x) ==
    LET dots == {i \in DOMAIN x : x[i] = "." /\ i > 1}
    IN IF dots = {} THEN 0 ELSE MaxOf(dots)

\* os.path.splitext(x)[0]
splitext_root(x) == IF DotIndex(x) = 0 THEN x ELSE SubSeq(x, 1, DotIndex(x) - 1)

\* os.path.splitext(x)[1]
splitext_ext(x) == IF DotIndex(x) = 0 THEN <<>> ELSE SubSeq(x, DotIndex(x), Len(x))

\* x.split(sep)[0]
split_first(x, sep) ==
    LET at == {i \in DOMAIN x : x[i] = sep}
    IN IF at = {} THEN x ELSE SubSeq(x, 1, MinOf(at) - 1)

\* x.split(sep)[1]; empty when there is no second field
split_second(x, sep) ==
    LET at == {i \in DOMAIN x : x[i] = sep}
    IN IF at = {} THEN <<>>
       ELSE LET rest == SubSeq(x, MinOf(at) + 1, Len(x))
            IN split_first(rest, sep)

\* os.path.basename(x)
basename(x) ==
    LET at == {i \in DOMAIN x : x[i] = "/"}
    IN IF at = {} THEN x ELSE SubSeq(x, MaxOf(at) + 1, Len(x))

\* unidecode(x): accented letters become their ASCII letter
unidecode_char(c) == IF c = "a'" THEN "a" ELSE IF c = "e'" THEN "e" ELSE c

unidecode(x) == [i \in DOMAIN x |-> unidecode_char(x[i])]

\* glob "<n>*<ext>": the name starts with n and ends with the extension
StartsWith(x, n) == Len(x) >= Len(n) /\ SubSeq(x, 1, Len(n)) = n

EndsWith(x, e) == Len(x) >= Len(e) /\ SubSeq(x, Len(x) - Len(e) + 1, Len(x)) = e

\* Python's  n in f  on strings: n occurs somewhere in f
Contains(f, n) == \E i \in 0..(Len(f) - Len(n)) : SubSeq(f, i + 1, i + Len(n)) = n

JPG == <<".", "jpg">>

TXT == <<".", "txt">>

BMP == <<".", "bmp">>

PTS == <<".", "pts">>

----------------------------------------------------------------------------
(* Point-index tables: dictionaries in insertion order, as <<key, contours>> *)

part_points_helen ==
    << <<"jaw", <<Range(0, 41)>> >>,
       <<"eye", <<Range(114, 134), Range(134, 154)>> >>,
       <<"nose", <<Range(41, 58) \o <<154, 174>> >> >>,
       <<"mouth", <<Range(58, 114)>> >>,
       <<"eyebrow", <<Range(154, 174), Range(174, 194)>> >> >>

part_points_afw ==
    << <<"jaw", <<Range(0, 17)>> >>,
       <<"eye", <<Range(36, 42), Range(42, 48)>> >>,
       <<"nose", <<Range(27, 36) \o <<21, 22>> >> >>,
       <<"mouth", <<Range(48, 68)>> >>,
       <<"eyebrow", <<Range(17, 22), Range(22, 27)>> >> >>

part_points_menpo_profile ==
    << <<"jaw", <<Range(0, 12)>> >>,
       <<"eye", <<Range(22, 27)>> >>,
       <<"nose", <<Range(16, 22)>> >>,
       <<"mouth", <<Range(27, 39)>> >>,
       <<"eyebrow", <<Range(12, 16)>> >> >>

part_points_lapa ==
    << <<"jaw", <<Range(0, 33)>> >>,
       <<"eyebrow", <<Range(33, 42), Range(42, 51)>> >>,
       <<"nose", <<Range(51, 66)>> >>,
       <<"eye", <<Range(66, 75), Range(75, 84)>> >>,
       <<"mouth", <<Range(84, 104)>> >> >>

part_points_menpo(img_type) ==
    IF img_type = "profile" THEN part_points_menpo_profile ELSE part_points_afw

\* table.keys()
Keys(table) == [i \in DOMAIN table |-> table[i][1]]

\* table[part_name]
Lookup(table, part_name) ==
    LET i == CHOOSE j \in DOMAIN table : table[j][1] = part_name IN table[i][2]

NotJaw(p) == p # "jaw"

\* variant: each table numbered by its own key order, jaw left out
OwnParts(table) == SelectSeq(Keys(table), NotJaw)

use_parts == SelectSeq(Keys(part_points_helen), NotJaw)

\* the part names a pass enumerates to number the classes of `table`
PassParts(table) == use_parts

\* for part_id, part_name in enumerate(use_parts): for idxs in table[part_name]
\* -> the sequence of [part_id, part_name, idxs] in processing order
ContourGroups(table) ==
    LET parts == PassParts(table)
        one(k) == LET cs == Lookup(table, parts[k])
                  IN [j \in DOMAIN cs |->
                        [part_id |-> k - 1, part_name |-> parts[k], idxs |-> cs[j]]]
    IN Flatten([k \in DOMAIN parts |-> one(k)])

\* {i: p for i, p in enumerate(use_parts)}
YamlNames == [i \in 0..(Len(use_parts) - 1) |-> use_parts[i + 1]]

----------------------------------------------------------------------------
(* Geometry Normalizer (utils.points_to_yolo) and its call sites *)

\* largest pixel coordinate of the synthetic landmark files
MaxCoord == 6

Xs(contour) == {contour[i][1] : i \in DOMAIN contour}

Ys(contour) == {contour[i][2] : i \in DOMAIN contour}

\* the row appended to img_labels: class id and the normalized box, each
\* value an exact fraction <<numerator, denominator>>
points_to_yolo(contour, part_id, img_h, img_w) ==
    [class |-> part_id,
     x |-> <<MinOf(Xs(contour)) + MaxOf(Xs(contour)), 2 * img_w>>,
     y |-> <<MinOf(Ys(contour)) + MaxOf(Ys(contour)), 2 * img_h>>,
     w |-> <<MaxOf(Xs(contour)) - MinOf(Xs(contour)), img_w>>,
     h |-> <<MaxOf(Ys(contour)) - MinOf(Ys(contour)), img_h>>]

\* variant: height and width handed over in the wrong order
BoxCallSwapped(contour, part_id, img_h, img_w) ==
    points_to_yolo(contour, part_id, img_w, img_h)

\* x, y, w, h = points_to_yolo(img_labels, contour, part_id, img_h, img_w)
BoxCall(contour, part_id, img_h, img_w) ==
    points_to_yolo(contour, part_id, img_h, img_w)

----------------------------------------------------------------------------
(* Landmark files.  A landmark file is [n, bad, seed]: it holds n point    *)
(* lines, line `bad` (0-based, -1 = none) does not parse as two floats,    *)
(* and point i is Pt(seed, i).                                             *)

Pt(seed, i) == <<(i * seed + seed) % (MaxCoord + 1), (i + 3 * seed) % (MaxCoord + 1)>>

\* variant: a missing line is not noticed (only an unparsable one is)
ContourFailsLenient(idxs, ann) == \E k \in DOMAIN idxs : idxs[k] = ann.bad

\* [lines[i] for i in idxs] raises IndexError, or float(c) raises ValueError
ContourFails(idxs, ann) ==
    \E k \in DOMAIN idxs : idxs[k] >= ann.n \/ idxs[k] = ann.bad

\* contour = [[x, y] for each point of idxs]
ContourOf(idxs, ann) == [k \in DOMAIN idxs |-> Pt(ann.seed, idxs[k])]

\* position of the first contour group that raises, 0 when none does
FirstFail(table, ann) ==
    LET gs == ContourGroups(table)
        bad == {k \in DOMAIN gs : ContourFails(gs[k].idxs, ann)}
    IN IF bad = {} THEN 0 ELSE MinOf(bad)

\* img_labels after the first k contour groups: one row per group, in
\* processing order; `part` records the semantic class the row was made for
RowsUpTo(table, ann, img_h, img_w, k) ==
    LET gs == ContourGroups(table)
    IN [j \in 1..k |->
          [part |-> gs[j].part_name,
           box |-> BoxCall(ContourOf(gs[j].idxs, ann), gs[j].part_id, img_h, img_w)]]

\* img_labels when the loops over use_parts and contours have finished
AllRows(table, ann, img_h, img_w) ==
    RowsUpTo(table, ann, img_h, img_w, Len(ContourGroups(table)))

\* img_labels at the moment a contour group raises
RowsBeforeFail(table, ann, img_h, img_w) ==
    RowsUpTo(table, ann, img_h, img_w, FirstFail(table, ann) - 1)

----------------------------------------------------------------------------
(* The input trees the runs are checked over *)

Img(name, w, h) == [name |-> name, w |-> w, h |-> h]

Lm(n, bad, seed) == [n |-> n, bad |-> bad, seed |-> seed]

\* a file that is not on disk
NoImg == Img(<<>>, 0, 0)

NoLm == Lm(-1, -1, 0)

Stem(id, face) == <<id, "_", face>>

\* Helen: images/<id>_<face>.jpg, annotation/<k>.txt whose first line is the
\* image name without extension, trainnames.txt, testnames.txt
HelenImgs == {Img(Stem("1", "1") \o JPG, 4, 6), Img(Stem("1", "2") \o JPG, 4, 6),
              Img(Stem("2", "1") \o JPG, 6, 4), Img(Stem("3", "2") \o JPG, 5, 5)}

HelenTestImg == Img(Stem("4", "1") \o JPG, 6, 6)

HelenAnn(stem, lm) == [img |-> stem, lm |-> lm]

HelenGood == Lm(194, -1, 1)

HelenBadLms == {Lm(150, -1, 1), Lm(194, 60, 1)}

HelenInput(imgs, annotated, lmOf21) ==
    [images |-> imgs \cup {HelenTestImg},
     anns |-> {HelenAnn(splitext_root(i.name),
                        IF i.name = Stem("2", "1") \o JPG THEN lmOf21 ELSE HelenGood)
                 : i \in annotated}
              \cup {HelenAnn(Stem("4", "1"), HelenGood)},
     trainnames |-> <<Stem("1", "1"), Stem("1", "2"), Stem("2", "1"), Stem("3", "2")>>,
     testnames |-> <<Stem("4", "1")>>]

HelenBase == HelenInput({Img(Stem("2", "1") \o JPG, 6, 4)},
                        {Img(Stem("2", "1") \o JPG, 6, 4)}, HelenGood)

\* every choice of images and of which of them have an annotation file
HelenInputs ==
    {HelenInput(imgs, annotated, HelenGood) :
        <<imgs, annotated>> \in {p \in (SUBSET HelenImgs) \X (SUBSET HelenImgs) :
                                   p[2] \subseteq p[1]}}
    \cup {HelenInput({Img(Stem("2", "1") \o JPG, 6, 4)},
                     {Img(Stem("2", "1") \o JPG, 6, 4)}, lm) : lm \in HelenBadLms}
    \* an annotation that names an image that is not there
    \cup {HelenInput({}, {Img(Stem("2", "1") \o JPG, 6, 4)}, HelenGood)}

\* Pexels: sub-collections, each with annotations/obj_train_data/<x>.txt and
\* images/<x>.jpg
PexelsSet(name, stems) == [name |-> name, labels |-> {st \o TXT : st \in stems}]

PexelsBase == {PexelsSet("s1", {<<"b">>})}

PexelsInputs ==
    {{PexelsSet("s1", s1), PexelsSet("s2", s2)} :
        <<s1, s2>> \in (SUBSET {<<"a">>, <<"a'">>}) \X (SUBSET {<<"a">>})}

\* AFW: <base>_<face>.jpg and <base>_<face>.pts side by side
AfwGood(seed) == Lm(68, -1, seed)

AfwFile(stem, w, h, lm) == [name |-> stem \o JPG, w |-> w, h |-> h, pts |-> lm]

AfwFiles == {AfwFile(Stem("5", "1"), 4, 4, AfwGood(1)),
             AfwFile(Stem("5", "2"), 6, 5, AfwGood(2)),
             AfwFile(<<"5", "6", "_", "1">>, 5, 6, AfwGood(3))}

\* jpgs: the *.jpg files; pts: the *.pts files
AfwInput(files, withPts) ==
    [jpgs |-> {Img(f.name, f.w, f.h) : f \in files},
     pts |-> {[name |-> splitext_root(f.name) \o PTS, lm |-> f.pts] : f \in withPts}]

AfwBase == AfwInput({AfwFile(Stem("5", "1"), 4, 4, AfwGood(1))},
                    {AfwFile(Stem("5", "1"), 4, 4, AfwGood(1))})

AfwInputs ==
    {AfwInput(fs, fs) : fs \in SUBSET AfwFiles}
    \cup {AfwInput({AfwFile(Stem("5", "1"), 4, 4, lm)}, {AfwFile(Stem("5", "1"), 4, 4, lm)})
            : lm \in {Lm(60, -1, 1), Lm(68, 40, 1)}}
    \* a face image whose points file is missing
    \cup {AfwInput({AfwFile(Stem("5", "1"), 4, 4, AfwGood(1))}, {})}

\* Menpo2D: per split the lines of Menpo2D_profile_<s>.txt followed by those
\* of Menpo2D_semifrontal_<s>.txt; a line is an image path and its landmarks
MenpoLine(path, lm, img) == [path |-> path, lm |-> lm, img |-> img]

MenpoFront == MenpoLine(<<"image", "/", "m", ".", "jpg">>, Lm(68, -1, 1), Img(<<"m">>, 6, 6))

MenpoProfile == MenpoLine(<<"p", ".", "png">>, Lm(39, -1, 2), Img(<<"p">>, 4, 5))

MenpoTest == MenpoLine(<<"t", ".", "jpg">>, Lm(68, -1, 3), Img(<<"t">>, 5, 4))

MenpoTestSame == MenpoLine(<<"m", ".", "jpg">>, Lm(68, -1, 2), Img(<<"m2">>, 5, 5))

MenpoInput(train, test) == [train |-> train, test |-> test]

MenpoBase == MenpoInput(<<MenpoFront>>, <<MenpoTest>>)

MenpoInputs ==
    {MenpoInput(tr, te) : <<tr, te>> \in
        {<<MenpoProfile, MenpoFront>>, <<MenpoProfile>>, <<MenpoFront>>, <<>>}
        \X {<<MenpoTest>>, <<MenpoTestSame>>, <<>>}}
    \cup {MenpoInput(<<MenpoLine(<<"m", ".", "jpg">>, lm, Img(<<"m">>, 6, 6))>>, <<MenpoTest>>)
            : lm \in {Lm(50, -1, 1), Lm(68, 30, 1), Lm(30, -1, 1)}}
    \* a listed image that is not on disk
    \cup {MenpoInput(<<MenpoLine(<<"m", ".", "jpg">>, Lm(68, -1, 1), NoImg)>>, <<MenpoTest>>)}

\* LaPa: <split>/images/<x>.jpg and <split>/landmarks/<x>.txt
LapaFile(name, w, h, lm) == [name |-> name, w |-> w, h |-> h, lm |-> lm]

LapaGood(seed) == Lm(106, -1, seed)

LapaTrainFiles == {LapaFile(<<"l">> \o JPG, 6, 6, LapaGood(1)),
                   LapaFile(<<"HELEN", "_", "l">> \o JPG, 4, 4, LapaGood(2)),
                   LapaFile(<<"l", "_", "AFW", "_">> \o JPG, 5, 5, LapaGood(3))}

LapaValFiles == {LapaFile(<<"v">> \o JPG, 6, 4, LapaGood(1)),
                 LapaFile(<<"l">> \o JPG, 4, 6, LapaGood(2))}

LapaInput(train, val) == [train |-> train, val |-> val]

LapaBase == LapaInput({LapaFile(<<"l">> \o JPG, 6, 6, LapaGood(1))},
                      {LapaFile(<<"v">> \o JPG, 6, 4, LapaGood(1))})

LapaInputs ==
    {LapaInput(tr, va) : <<tr, va>> \in (SUBSET LapaTrainFiles) \X (SUBSET LapaValFiles)}
    \cup {LapaInput({LapaFile(<<"l">> \o JPG, 6, 6, lm)}, {}) :
            lm \in {Lm(100, -1, 1), Lm(106, 70, 1), NoLm}}

\* FASSEG: annotations/obj_train_data/<x>.txt, images/<x>.bmp, split_info.csv
FassegRow(image, is_train) == [image |-> image, is_train |-> is_train]

FassegInput(stems, csv) == [labels |-> {st \o TXT : st \in stems}, split |-> csv]

FassegBase == FassegInput({<<"f">>}, <<FassegRow(<<"f">> \o BMP, 1)>>)

FassegInputs ==
    {FassegInput({<<"f">>, <<"g">>}, csv) : csv \in
        {<<FassegRow(<<"f">> \o BMP, 1), FassegRow(<<"g">> \o BMP, 0)>>,
         <<FassegRow(<<"f">>, 1), FassegRow(<<"g">>, 0)>>,
         <<FassegRow(<<"f">> \o BMP, 1), FassegRow(<<"f">> \o BMP, 0)>>,
         <<FassegRow(<<"g">> \o BMP, 0)>>}}

BaseTree == [helen |-> HelenBase, pexels |-> PexelsBase, afw |-> AfwBase,
             menpo |-> MenpoBase, lapa |-> LapaBase, fasseg |-> FassegBase]

\* a file of another dataset that bears the name of a Helen image: Pexels
\* s1/1_2.txt or LaPa train 3_2.jpg, with and without that Helen image
CrossTrees ==
    {[BaseTree EXCEPT !.helen = HelenInput(imgs, imgs, HelenGood),
                      !.pexels = {PexelsSet("s1", {Stem("1", "2"), <<"b">>})}] :
        imgs \in {{}, {Img(Stem("1", "1") \o JPG, 4, 6), Img(Stem("1", "2") \o JPG, 4, 6)}}}
    \cup {[BaseTree EXCEPT !.helen = HelenInput(imgs, imgs, HelenGood),
                           !.lapa = LapaInput({LapaFile(Stem("3", "2") \o JPG, 6, 6, LapaGood(1))},
                                              {LapaFile(<<"v">> \o JPG, 6, 4, LapaGood(1))})] :
        imgs \in {{}, {Img(Stem("3", "2") \o JPG, 5, 5)}}}

\* one dataset varies over all its inputs while the others hold one sample
Trees ==
    {[BaseTree EXCEPT !.helen = x] : x \in HelenInputs}
    \cup {[BaseTree EXCEPT !.pexels = x] : x \in PexelsInputs}
    \cup {[BaseTree EXCEPT !.afw = x] : x \in AfwInputs}
    \cup {[BaseTree EXCEPT !.menpo = x] : x \in MenpoInputs}
    \cup {[BaseTree EXCEPT !.lapa = x] : x \in LapaInputs}
    \cup {[BaseTree EXCEPT !.fasseg = x] : x \in FassegInputs}
    \cup CrossTrees

----------------------------------------------------------------------------
(* State of a run *)

\* a file of the label pool: the dataset pass that wrote it, its rows, and
\* where the rows came from (landmark file, image it was read with, the
\* img_h and img_w used to normalize)
LabelFile(ds, rows, from, img, img_h, img_w) ==
    [ds |-> ds, rows |-> rows, from |-> from, img |-> img, img_h |-> img_h, img_w |-> img_w]

\* a file of the image pool: the dataset pass that copied it and its source
ImageFile(ds, src) == [ds |-> ds, src |-> src]

\* dict / directory update: f[k] = v
Put(f, k, v) == [x \in (DOMAIN f) \cup {k} |-> IF x = k THEN v ELSE f[x]]

Idle == [ds |-> "none"]

NoLists == [pexels_names |-> <<>>, pexels_train |-> <<>>, pexels_val |-> <<>>,
            afw_names |-> <<>>, afw_train |-> <<>>, afw_val |-> <<>>,
            menpo_train |-> <<>>, menpo_test |-> <<>>,
            lapa_train |-> <<>>, lapa_val |-> <<>>,
            fasseg_train |-> <<>>, fasseg_val |-> <<>>]

NoManifest == [train |-> <<>>, trainWritten |-> FALSE, val |-> <<>>, valWritten |-> FALSE]

NoYaml == [written |-> FALSE, names |-> <<>>]

NoPrev == [kept |-> FALSE, labels |-> <<>>, manifest |-> NoManifest]

NoShuf == [pexels |-> <<>>, afw |-> <<>>,
           order |-> [k \in {"pexels", "lapa_train", "lapa_val"} |-> <<>>],
           glob |-> <<>>]

\* os.listdir / glob on an unmodified tree: any order in the first run, the
\* same order again in the second
ListedNext(key, item, left) ==
    run = 2 => item = shuf.order[key][Len(shuf.order[key]) - Cardinality(left) + 1]

Listed(key, item) ==
    IF run = 1 THEN [shuf EXCEPT !.order[key] = Append(@, item)] ELSE shuf

NoGeo == [contour |-> <<>>, img_w |-> 0, img_h |-> 0, done |-> FALSE,
          row |-> points_to_yolo(<<<<0, 0>>>>, 0, 1, 1)]

\* the script starts: nothing in memory, an empty output folder
InitOn(trees) ==
    /\ tree \in trees
    /\ pc = "start"
    /\ run = 1
    /\ todo = {}
    /\ cur = Idle
    /\ skip_imgs = {}
    /\ images = <<>>
    /\ labels = <<>>
    /\ lists = NoLists
    /\ shuf = NoShuf
    /\ manifest = NoManifest
    /\ yaml = NoYaml
    /\ prev = NoPrev

Init == InitOn(Trees) /\ geo = NoGeo

\* an uncaught exception ends the script at the sample of dataset `ds` whose
\* image goes to the pool as `what`
Raise(ds, what) ==
    /\ pc' = "aborted"
    /\ cur' = [ds |-> ds, failed |-> what]

----------------------------------------------------------------------------
(* PART 1: Helen *)

DigitVal(d) == CASE d = "0" -> 0 [] d = "1" -> 1 [] d = "2" -> 2 [] d = "3" -> 3
                 [] d = "4" -> 4 [] d = "5" -> 5 [] d = "6" -> 6 [] d = "7" -> 7
                 [] d = "8" -> 8 [] d = "9" -> 9

RECURSIVE ToInt(_)
ToInt(ds) == IF ds = <<>> THEN 0
             ELSE 10 * ToInt(SubSeq(ds, 1, Len(ds) - 1)) + DigitVal(ds[Len(ds)])

\* img_name.split("_")[0]
img_id(name) == split_first(name, "_")

\* int(img_name.split("_")[1].replace(".jpg", ""))
face_id(name) == ToInt(splitext_root(split_second(name, "_")))

\* face_counts: number of listed images per img_id
face_count(names, id) == Cardinality({n \in names : img_id(n) = id})

\* variant: only the secondary faces are skipped
SkipSecondaryOnly(names) == {n \in names : face_id(n) > 1}

\* skip_imgs: images of an img_id with several faces, or with a face_id > 1
SkipList(names) ==
    {n \in names : face_count(names, img_id(n)) > 1 \/ face_id(n) > 1}

HelenNames == {i.name : i \in tree.helen.images}

HelenImage(name) == CHOOSE i \in tree.helen.images : i.name = name

\* lines 116-125: the skip list, then the loop over the annotation folder
HelenSkipList ==
    /\ pc = "start"
    /\ skip_imgs' = SkipList(HelenNames)
    /\ todo' = tree.helen.anns
    /\ pc' = "helen"
    /\ UNCHANGED <<tree, run, cur, images, labels, lists, shuf, manifest, yaml, prev, geo>>

\* an annotation of a skipped image is passed over
HelenSkipped ==
    /\ pc = "helen"
    /\ \E ann \in todo :
         /\ (ann.img \o JPG) \in skip_imgs
         /\ todo' = todo \ {ann}
    /\ UNCHANGED <<tree, pc, run, cur, skip_imgs, images, labels, lists, shuf,
                   manifest, yaml, prev, geo>>

\* variant: the rows computed so far are flushed when a contour raises
LabelsOnRaisePartial(lbls, name, partial) == Put(lbls, name, partial)

\* what the exception path leaves in the label pool: to_csv is not reached
LabelsOnRaise(lbls, name, partial) == lbls

\* lines 145-169: imread, then one box per contour into img_labels
HelenParse ==
    /\ pc = "helen"
    /\ \E ann \in todo :
         /\ (ann.img \o JPG) \notin skip_imgs
         /\ (ann.img \o JPG) \in HelenNames
         /\ FirstFail(part_points_helen, ann.lm) = 0
         /\ LET img == HelenImage(ann.img \o JPG)
            IN cur' = [ds |-> "helen", ann |-> ann, img |-> img,
                       img_labels |-> AllRows(part_points_helen, ann.lm, img.h, img.w)]
    /\ pc' = "helen_save"
    /\ UNCHANGED <<tree, run, todo, skip_imgs, images, labels, lists, shuf,
                   manifest, yaml, prev, geo>>

\* imread returns None for a missing image, or a contour raises
HelenRaise ==
    /\ pc = "helen"
    /\ \E ann \in todo :
         /\ (ann.img \o JPG) \notin skip_imgs
         /\ \/ /\ (ann.img \o JPG) \notin HelenNames
               /\ labels' = labels
            \/ /\ (ann.img \o JPG) \in HelenNames
               /\ FirstFail(part_points_helen, ann.lm) # 0
               /\ LET img == HelenImage(ann.img \o JPG)
                  IN labels' = LabelsOnRaise(labels, ann.img \o TXT,
                        LabelFile("helen",
                                  RowsBeforeFail(part_points_helen, ann.lm, img.h, img.w),
                                  ann.img, img.name, img.h, img.w))
         /\ Raise("helen", ann.img \o JPG)
    /\ UNCHANGED <<tree, run, todo, skip_imgs, images, lists, shuf,
                   manifest, yaml, prev, geo>>

\* lines 176-180: copy the image, then write the label file
HelenSave ==
    /\ pc = "helen_save"
    /\ images' = Put(images, cur.img.name, ImageFile("helen", cur.img))
    /\ labels' = Put(labels, splitext_root(cur.img.name) \o TXT,
                     LabelFile("helen", cur.img_labels, cur.ann.img, cur.img.name,
                               cur.img.h, cur.img.w))
    /\ todo' = todo \ {cur.ann}
    /\ cur' = Idle
    /\ pc' = "helen"
    /\ UNCHANGED <<tree, run, skip_imgs, lists, shuf, manifest, yaml, prev, geo>>

HelenDone ==
    /\ pc = "helen"
    /\ todo = {}
    /\ pc' = "pexels"
    /\ todo' = UNION {{<<s.name, l>> : l \in s.labels} : s \in tree.pexels}
    /\ UNCHANGED <<tree, run, cur, skip_imgs, images, labels, lists, shuf,
                   manifest, yaml, prev, geo>>

----------------------------------------------------------------------------
(* PART 2: Pexels *)

\* numerator and denominator of train_pct = 0.7
TrainPctNum == 7

TrainPctDen == 10

\* train_pct is a double: the double nearest to 0.7 is
\* (7 * 2^53 - TrainPctErr) / (10 * 2^53)
TrainPctErr == 4

\* the largest power of two that is not above x (x >= 1)
RECURSIVE Pow2Below(_)
Pow2Below(x) == IF x < 2 THEN 1 ELSE 2 * Pow2Below(x \div 2)

\* train_pct * n in double arithmetic, truncated by int(). The exact product
\* is 7n/10 - 4n/(10 * 2^53). When 10 does not divide n, 7n/10 is at least
\* 1/10 away from an integer and the product truncates to floor(7n/10).
\* When n = 10k the product is 7k - 4k/2^53; the doubles just below 7k are
\* 2^(e-52) apart, where 2^e is the largest power of two not above 7k, so
\* the product rounds to 7k when 4k <= 2^e (a tie goes to the even
\* neighbour, 7k) and to a double below 7k, truncated to 7k - 1, otherwise.
train_size(n) ==
    LET k == n \div TrainPctDen
        whole == n % TrainPctDen = 0 /\ n > 0
    IN IF whole /\ TrainPctErr * k > Pow2Below(TrainPctNum * k)
       THEN TrainPctNum * k - 1
       ELSE (TrainPctNum * n) \div TrainPctDen

\* the permutation random.shuffle applies: any one in the first run, and
\* the same one again in the second run (same seed, same list length)
ShuffleChoices(n, remembered) ==
    IF run = 2 /\ Len(remembered) = n THEN {remembered} ELSE Perms(n)

\* lines 194-206: one label file of one sub-collection; the loops follow the
\* directory listings, a sub-collection is finished before the next begins
PexelsCopy ==
    /\ pc = "pexels"
    /\ \E item \in todo :
         LET s == item[1]
             l == item[2]
             file_name_cleaned == unidecode(splitext_root(l))
             src == <<s, "/">> \o splitext_root(l) \o JPG
         IN /\ IF cur.ds = "pexels"
               THEN cur.set = s \/ \A other \in todo : other[1] # cur.set
               ELSE TRUE
            /\ ListedNext("pexels", item, todo)
            /\ shuf' = Listed("pexels", item)
            /\ lists' = [lists EXCEPT !.pexels_names = Append(@, file_name_cleaned)]
            /\ images' = Put(images, file_name_cleaned \o JPG,
                             ImageFile("pexels", Img(src, 0, 0)))
            /\ labels' = Put(labels, file_name_cleaned \o TXT,
                             LabelFile("pexels", <<>>, <<s, "/">> \o l, src, 0, 0))
            /\ todo' = todo \ {item}
            /\ cur' = [ds |-> "pexels", set |-> s]
    /\ UNCHANGED <<tree, pc, run, skip_imgs, manifest, yaml, prev, geo>>

\* lines 209-213: shuffle and slice
PexelsSplit ==
    /\ pc = "pexels"
    /\ todo = {}
    /\ \E p \in ShuffleChoices(Len(lists.pexels_names), shuf.pexels) :
         LET shuffled == Permute(lists.pexels_names, p)
             k == train_size(Len(shuffled))
         IN /\ shuf' = [shuf EXCEPT !.pexels = p]
            /\ lists' = [lists EXCEPT !.pexels_names = shuffled,
                                      !.pexels_train = SubSeq(shuffled, 1, k),
                                      !.pexels_val = SubSeq(shuffled, k + 1, Len(shuffled))]
    /\ pc' = "afw_names"
    /\ cur' = Idle
    /\ UNCHANGED <<tree, run, todo, skip_imgs, images, labels, manifest, yaml, prev, geo>>

----------------------------------------------------------------------------
(* PART 3: AFW *)

\* list(set(...)): the set is enumerated in an order of the interpreter's choosing
AfwNameOrders(names) == Orderings(names)

\* lines 220-225: base names, shuffle and slice
AfwNames ==
    /\ pc = "afw_names"
    /\ \E o \in AfwNameOrders({split_first(basename(j.name), "_") : j \in tree.afw.jpgs}) :
       \E p \in ShuffleChoices(Len(o), shuf.afw) :
         LET shuffled == Permute(o, p)
             k == train_size(Len(shuffled))
         IN /\ shuf' = [shuf EXCEPT !.afw = p]
            /\ lists' = [lists EXCEPT !.afw_names = shuffled,
                                      !.afw_train = SubSeq(shuffled, 1, k),
                                      !.afw_val = SubSeq(shuffled, k + 1, Len(shuffled))]
            /\ todo' = shuffled
    /\ pc' = "afw"
    /\ UNCHANGED <<tree, run, cur, skip_imgs, images, labels, manifest, yaml, prev, geo>>

\* glob("<n>*.jpg")
GlobJpg(n) == {j \in tree.afw.jpgs : StartsWith(j.name, n) /\ EndsWith(j.name, JPG)}

\* glob("<n>*.pts")
GlobPts(n) == {q \in tree.afw.pts : StartsWith(q.name, n) /\ EndsWith(q.name, PTS)}

\* lines 234-235: the two globs of one base name, each in the order glob yields
AfwGlob ==
    /\ pc = "afw"
    /\ todo # <<>>
    /\ \E gi \in Orderings(GlobJpg(Head(todo))) :
       \E gp \in Orderings(GlobPts(Head(todo))) :
         /\ run = 2 => shuf.glob[Head(todo)] = <<gi, gp>>
         /\ shuf' = IF run = 1 THEN [shuf EXCEPT !.glob = Put(@, Head(todo), <<gi, gp>>)]
                    ELSE shuf
         /\ cur' = [ds |-> "afw", n |-> Head(todo), grouped_images |-> gi,
                    grouped_points |-> gp, i |-> 0, img_h |-> 0, img_w |-> 0]
    /\ pc' = "afw_copy"
    /\ UNCHANGED <<tree, run, todo, skip_imgs, images, labels, lists,
                   manifest, yaml, prev, geo>>

\* lines 242-253: copy face image i to <n>.jpg, open points file i, and for
\* i == 0 read the image size
AfwCopy ==
    /\ pc = "afw_copy"
    /\ cur.i < Len(cur.grouped_points)
    /\ LET img == cur.grouped_images[cur.i + 1]
       IN /\ images' = Put(images, cur.n \o JPG, ImageFile("afw", img))
          /\ cur' = IF cur.i = 0
                    THEN [cur EXCEPT !.img_h = img.h, !.img_w = img.w]
                    ELSE cur
    /\ pc' = "afw_label"
    /\ UNCHANGED <<tree, run, todo, skip_imgs, labels, lists, shuf,
                   manifest, yaml, prev, geo>>

\* grouped_points[i] does not exist: IndexError after the copy
AfwCopyRaise ==
    /\ pc = "afw_copy"
    /\ cur.i >= Len(cur.grouped_points)
    /\ images' = Put(images, cur.n \o JPG,
                     ImageFile("afw", cur.grouped_images[cur.i + 1]))
    /\ Raise("afw", cur.n \o JPG)
    /\ UNCHANGED <<tree, run, todo, skip_imgs, labels, lists, shuf,
                   manifest, yaml, prev, geo>>

\* after the last face of a base name the loop moves to the next name
AfwAdvance(c) ==
    IF c.i + 1 = Len(c.grouped_images) THEN "afw" ELSE "afw_copy"

\* lines 260-283: the boxes of face i, written to <n>.txt
AfwLabel ==
    /\ pc = "afw_label"
    /\ LET q == cur.grouped_points[cur.i + 1]
       IN /\ FirstFail(part_points_afw, q.lm) = 0
          /\ labels' = Put(labels, cur.n \o TXT,
                LabelFile("afw", AllRows(part_points_afw, q.lm, cur.img_h, cur.img_w),
                          q.name, cur.grouped_images[cur.i + 1].name,
                          cur.img_h, cur.img_w))
    /\ pc' = AfwAdvance(cur)
    /\ todo' = IF AfwAdvance(cur) = "afw" THEN Tail(todo) ELSE todo
    /\ cur' = [cur EXCEPT !.i = @ + 1]
    /\ UNCHANGED <<tree, run, skip_imgs, images, lists, shuf, manifest, yaml, prev, geo>>

AfwLabelRaise ==
    /\ pc = "afw_label"
    /\ LET q == cur.grouped_points[cur.i + 1]
       IN /\ FirstFail(part_points_afw, q.lm) # 0
          /\ labels' = LabelsOnRaise(labels, cur.n \o TXT,
                LabelFile("afw", RowsBeforeFail(part_points_afw, q.lm, cur.img_h, cur.img_w),
                          q.name, cur.grouped_images[cur.i + 1].name,
                          cur.img_h, cur.img_w))
    /\ Raise("afw", cur.n \o JPG)
    /\ UNCHANGED <<tree, run, todo, skip_imgs, images, lists, shuf,
                   manifest, yaml, prev, geo>>

AfwDone ==
    /\ pc = "afw"
    /\ todo = <<>>
    /\ pc' = "menpo_read"
    /\ cur' = Idle
    /\ UNCHANGED <<tree, run, todo, skip_imgs, images, labels, lists, shuf,
                   manifest, yaml, prev, geo>>

----------------------------------------------------------------------------
(* PART 4: Menpo2D *)

\* os.path.splitext(os.path.basename(f))[0] for each listed image
MenpoNames(lines) == [i \in DOMAIN lines |-> splitext_root(basename(lines[i].path))]

\* lines 290-308: the list files of both splits, then the names
MenpoRead ==
    /\ pc = "menpo_read"
    /\ lists' = [lists EXCEPT !.menpo_train = MenpoNames(tree.menpo.train),
                              !.menpo_test = MenpoNames(tree.menpo.test)]
    /\ todo' = tree.menpo.train \o tree.menpo.test
    /\ pc' = "menpo"
    /\ UNCHANGED <<tree, run, cur, skip_imgs, images, labels, shuf, manifest, yaml, prev, geo>>

\* lines 322-324: the listed image is copied first
MenpoCopy ==
    /\ pc = "menpo"
    /\ todo # <<>>
    /\ Head(todo).img # NoImg
    /\ images' = Put(images, basename(Head(todo).path), ImageFile("menpo", Head(todo).img))
    /\ cur' = [ds |-> "menpo", line |-> Head(todo)]
    /\ pc' = "menpo_label"
    /\ UNCHANGED <<tree, run, todo, skip_imgs, labels, lists, shuf, manifest, yaml, prev, geo>>

\* shutil.copy of an image that is not on disk
MenpoCopyRaise ==
    /\ pc = "menpo"
    /\ todo # <<>>
    /\ Head(todo).img = NoImg
    /\ Raise("menpo", basename(Head(todo).path))
    /\ UNCHANGED <<tree, run, todo, skip_imgs, images, labels, lists, shuf,
                   manifest, yaml, prev, geo>>

\* 'profile' if len(x_points) == 39 else 'semifrontal'
MenpoType(lm) == IF lm.n = 39 THEN "profile" ELSE "semifrontal"

\* float(lmk) of every field (line 327), then the boxes
MenpoRaises(lm) == lm.bad # -1 \/ FirstFail(part_points_menpo(MenpoType(lm)), lm) # 0

\* lines 327-365: the boxes of the image, written to <name>.txt
MenpoLabel ==
    /\ pc = "menpo_label"
    /\ ~MenpoRaises(cur.line.lm)
    /\ LET line == cur.line
           name == splitext_root(basename(line.path))
       IN labels' = Put(labels, name \o TXT,
             LabelFile("menpo",
                       AllRows(part_points_menpo(MenpoType(line.lm)), line.lm,
                               line.img.h, line.img.w),
                       line.path, basename(line.path), line.img.h, line.img.w))
    /\ todo' = Tail(todo)
    /\ cur' = Idle
    /\ pc' = "menpo"
    /\ UNCHANGED <<tree, run, skip_imgs, images, lists, shuf, manifest, yaml, prev, geo>>

MenpoLabelRaise ==
    /\ pc = "menpo_label"
    /\ MenpoRaises(cur.line.lm)
    /\ LET line == cur.line
           table == part_points_menpo(MenpoType(line.lm))
           k == IF line.lm.bad # -1 THEN 0
                ELSE FirstFail(table, line.lm) - 1
       IN labels' = LabelsOnRaise(labels, splitext_root(basename(line.path)) \o TXT,
             LabelFile("menpo", RowsUpTo(table, line.lm, line.img.h, line.img.w, k),
                       line.path, basename(line.path), line.img.h, line.img.w))
    /\ Raise("menpo", basename(cur.line.path))
    /\ UNCHANGED <<tree, run, todo, skip_imgs, images, lists, shuf,
                   manifest, yaml, prev, geo>>

MenpoDone ==
    /\ pc = "menpo"
    /\ todo = <<>>
    /\ pc' = "lapa_list_train"
    /\ UNCHANGED <<tree, run, todo, cur, skip_imgs, images, labels, lists, shuf,
                   manifest, yaml, prev, geo>>

----------------------------------------------------------------------------
(* PART 5: LaPa *)

exclude_prefix == << <<"HELEN", "_">>, <<"IBUG", "_">>, <<"AFW", "_">>, <<"LFPW", "_">> >>

\* any([n in f for n in exclude_prefix])
Excluded(f) == \E k \in DOMAIN exclude_prefix : Contains(f, exclude_prefix[k])

\* lines 385-387: the images of a split, the training ones filtered
LapaSplitImages(split) ==
    IF split = "train" THEN {f \in tree.lapa.train : ~Excluded(f.name)}
    ELSE tree.lapa.val

LapaList(split) ==
    /\ pc = "lapa_list_" \o split
    /\ todo' = LapaSplitImages(split)
    /\ pc' = "lapa_" \o split
    /\ UNCHANGED <<tree, run, cur, skip_imgs, images, labels, lists, shuf,
                   manifest, yaml, prev, geo>>

\* lines 391-397: the image is copied first, then read
LapaCopy(split) ==
    /\ pc = "lapa_" \o split
    /\ \E f \in todo :
         /\ ListedNext("lapa_" \o split, f, todo)
         /\ shuf' = Listed("lapa_" \o split, f)
         /\ images' = Put(images, f.name, ImageFile("lapa", Img(f.name, f.w, f.h)))
         /\ cur' = [ds |-> "lapa", f |-> f]
    /\ pc' = "lapa_label_" \o split
    /\ UNCHANGED <<tree, run, todo, skip_imgs, labels, lists, manifest, yaml, prev, geo>>

\* open() of a missing landmark file, lines[0] of an empty one, or a contour
LapaRaises(lm) == lm = NoLm \/ FirstFail(part_points_lapa, lm) # 0

\* lines 399-435: the boxes, the label file, the name appended to the list
LapaLabel(split) ==
    /\ pc = "lapa_label_" \o split
    /\ ~LapaRaises(cur.f.lm)
    /\ LET f == cur.f
           label_name == splitext_root(f.name)
       IN /\ labels' = Put(labels, label_name \o TXT,
                LabelFile("lapa", AllRows(part_points_lapa, f.lm, f.h, f.w),
                          split_first(f.name, ".") \o TXT, f.name, f.h, f.w))
          /\ lists' = IF split = "train"
                      THEN [lists EXCEPT !.lapa_train = Append(@, label_name)]
                      ELSE [lists EXCEPT !.lapa_val = Append(@, label_name)]
          /\ todo' = todo \ {f}
    /\ cur' = Idle
    /\ pc' = "lapa_" \o split
    /\ UNCHANGED <<tree, run, skip_imgs, images, shuf, manifest, yaml, prev, geo>>

LapaLabelRaise(split) ==
    /\ pc = "lapa_label_" \o split
    /\ LapaRaises(cur.f.lm)
    /\ LET f == cur.f
           k == IF f.lm = NoLm THEN 0 ELSE FirstFail(part_points_lapa, f.lm) - 1
       IN labels' = LabelsOnRaise(labels, splitext_root(f.name) \o TXT,
             LabelFile("lapa", RowsUpTo(part_points_lapa, f.lm, f.h, f.w, k),
                       split_first(f.name, ".") \o TXT, f.name, f.h, f.w))
    /\ Raise("lapa", cur.f.name)
    /\ UNCHANGED <<tree, run, todo, skip_imgs, images, lists, shuf,
                   manifest, yaml, prev, geo>>

LapaDone(split) ==
    /\ pc = "lapa_" \o split
    /\ todo = {}
    /\ pc' = IF split = "train" THEN "lapa_list_val" ELSE "fasseg"
    /\ todo' = IF split = "train" THEN {} ELSE tree.fasseg.labels
    /\ UNCHANGED <<tree, run, cur, skip_imgs, images, labels, lists, shuf,
                   manifest, yaml, prev, geo>>

----------------------------------------------------------------------------
(* PART 6: FASSEG *)

\* lines 449-460: image <x>.bmp and label <x>.txt copied as they are
FassegCopy ==
    /\ pc = "fasseg"
    /\ \E l \in todo :
         LET file_name == splitext_root(l)
         IN /\ images' = Put(images, file_name \o BMP,
                             ImageFile("fasseg", Img(file_name \o BMP, 0, 0)))
            /\ labels' = Put(labels, file_name \o TXT,
                             LabelFile("fasseg", <<>>, l, file_name \o BMP, 0, 0))
            /\ todo' = todo \ {l}
    /\ UNCHANGED <<tree, pc, run, cur, skip_imgs, lists, shuf, manifest, yaml, prev, geo>>

\* fasseg_splits.loc[fasseg_splits.is_train == flag, 'image'].to_list()
RECURSIVE CsvNames(_, _)
CsvNames(csv, flag) ==
    IF csv = <<>> THEN <<>>
    ELSE (IF Head(csv).is_train = flag THEN <<Head(csv).image>> ELSE <<>>)
         \o CsvNames(Tail(csv), flag)

\* lines 463-467
FassegSplit ==
    /\ pc = "fasseg"
    /\ todo = {}
    /\ lists' = [lists EXCEPT !.fasseg_train = CsvNames(tree.fasseg.split, 1),
                              !.fasseg_val = CsvNames(tree.fasseg.split, 0)]
    /\ pc' = "names_train"
    /\ UNCHANGED <<tree, run, todo, cur, skip_imgs, images, labels, shuf,
                   manifest, yaml, prev, geo>>

----------------------------------------------------------------------------
(* PART 7: manifests and data.yaml *)

Tagged(names, ds) == [i \in DOMAIN names |-> [id |-> names[i], ds |-> ds]]

\* fill_img_ext(x, ".jpg"): the extension is added only when x has none
fill_img_ext(x, ext) == IF Len(splitext_ext(x)) = 0 THEN x \o ext ELSE x

\* one line of images.txt with the line of labels.txt beside it
Entry(r) == [id |-> r.id, ds |-> r.ds,
             img |-> fill_img_ext(r.id, JPG),
             label |-> splitext_root(r.id) \o TXT]

RECURSIVE Without(_, _)
Without(names, skip) ==
    IF names = <<>> THEN <<>>
    ELSE (IF Head(names).id \in skip THEN <<>> ELSE <<Head(names)>>)
         \o Without(Tail(names), skip)

\* process_names(names, split, path_data, path_dest, skip)
process_names(names, skip) ==
    LET use == Without(names, skip) IN [i \in DOMAIN use |-> Entry(use[i])]

\* skip_helen_ids = [os.path.splitext(s)[0] for s in skip_imgs]
skip_helen_ids == {splitext_root(n) : n \in skip_imgs}

\* pd.concat of trainnames.txt and the train lists, in this order
train_names ==
    Tagged(tree.helen.trainnames, "helen") \o Tagged(lists.pexels_train, "pexels")
    \o Tagged(lists.afw_train, "afw") \o Tagged(lists.menpo_train, "menpo")
    \o Tagged(lists.lapa_train, "lapa") \o Tagged(lists.fasseg_train, "fasseg")

test_names ==
    Tagged(tree.helen.testnames, "helen") \o Tagged(lists.pexels_val, "pexels")
    \o Tagged(lists.afw_val, "afw") \o Tagged(lists.menpo_test, "menpo")
    \o Tagged(lists.lapa_val, "lapa") \o Tagged(lists.fasseg_val, "fasseg")

\* lines 476-483
ProcessTrain ==
    /\ pc = "names_train"
    /\ manifest' = [manifest EXCEPT !.train = process_names(train_names, skip_helen_ids),
                                    !.trainWritten = TRUE]
    /\ pc' = "names_val"
    /\ UNCHANGED <<tree, run, todo, cur, skip_imgs, images, labels, lists, shuf,
                   yaml, prev, geo>>

\* lines 485-492
ProcessVal ==
    /\ pc = "names_val"
    /\ manifest' = [manifest EXCEPT !.val = process_names(test_names, skip_helen_ids),
                                    !.valWritten = TRUE]
    /\ pc' = "yaml"
    /\ UNCHANGED <<tree, run, todo, cur, skip_imgs, images, labels, lists, shuf,
                   yaml, prev, geo>>

\* lines 496-504
WriteYaml ==
    /\ pc = "yaml"
    /\ yaml' = [written |-> TRUE, names |-> YamlNames]
    /\ pc' = "done"
    /\ UNCHANGED <<tree, run, todo, cur, skip_imgs, images, labels, lists, shuf,
                   manifest, prev, geo>>

\* the script is started again on the same tree: the output folder is as the
\* first run left it, everything in memory is new
Restart ==
    /\ pc = "done"
    /\ run = 1
    /\ prev' = [kept |-> TRUE, labels |-> labels, manifest |-> manifest]
    /\ run' = 2
    /\ pc' = "start"
    /\ todo' = {}
    /\ cur' = Idle
    /\ skip_imgs' = {}
    /\ lists' = NoLists
    /\ manifest' = NoManifest
    /\ yaml' = NoYaml
    /\ UNCHANGED <<tree, images, labels, shuf, geo>>

Pass ==
    \/ HelenSkipList \/ HelenSkipped \/ HelenParse \/ HelenRaise \/ HelenSave
    \/ HelenDone
    \/ PexelsCopy \/ PexelsSplit
    \/ AfwNames \/ AfwGlob \/ AfwCopy \/ AfwCopyRaise \/ AfwLabel \/ AfwLabelRaise
    \/ AfwDone
    \/ MenpoRead \/ MenpoCopy \/ MenpoCopyRaise \/ MenpoLabel \/ MenpoLabelRaise
    \/ MenpoDone
    \/ \E split \in {"train", "val"} :
         \/ LapaList(split) \/ LapaCopy(split) \/ LapaLabel(split)
         \/ LapaLabelRaise(split) \/ LapaDone(split)
    \/ FassegCopy \/ FassegSplit
    \/ ProcessTrain \/ ProcessVal \/ WriteYaml

\* the script runs, and may be run once more on the same tree
Next == Pass \/ Restart

Spec == Init /\ [][Next]_vars

----------------------------------------------------------------------------
(* The Geometry Normalizer on its own: one contour, one image size *)

\* largest coordinate and longest contour of the contours tried
GeoMaxCoord == 2

GeoMaxLen == 3

GeoPoints == (0..GeoMaxCoord) \X (0..GeoMaxCoord)

GeoContours == UNION {[1..n -> GeoPoints] : n \in 1..GeoMaxLen}

\* <<img_w, img_h>>
GeoSizes == {<<2, 3>>, <<3, 2>>, <<4, 4>>}

GeoInit ==
    /\ InitOn({BaseTree})
    /\ pc = "start"
    /\ \E c \in GeoContours, size \in GeoSizes :
         geo = [NoGeo EXCEPT !.contour = c, !.img_w = size[1], !.img_h = size[2]]

\* the call of line 165 on the contour, as class 0
GeoNormalize ==
    /\ ~geo.done
    /\ geo.contour # <<>>
    /\ geo' = [geo EXCEPT !.done = TRUE,
                          !.row = BoxCall(geo.contour, 0, geo.img_h, geo.img_w)]
    /\ UNCHANGED <<tree, pc, run, todo, cur, skip_imgs, images, labels, lists, shuf,
                   manifest, yaml, prev>>

GeoNext == GeoNormalize

SpecGeo == GeoInit /\ [][GeoNext]_vars

----------------------------------------------------------------------------
(* The random split on its own: one list of collected names, one permutation *)

\* longest list of collected names tried
MaxNames == 100

Digits == <<"0", "1", "2", "3", "4", "5", "6", "7", "8", "9">>

\* the i-th file stem, distinct for distinct i
NumName(i) ==
    <<Digits[((i \div 100) % 10) + 1], Digits[((i \div 10) % 10) + 1], Digits[(i % 10) + 1]>>

\* permutations the seeded shuffle may stand for on a list of n names
SeededShuffles(n) ==
    {[i \in 1..n |-> i], [i \in 1..n |-> n + 1 - i], [i \in 1..n |-> (i % n) + 1]}

\* the Pexels listing has been read (n names, in listing order), the seed
\* has fixed the permutation, the split of lines 209-213 is about to run
SplitInit ==
    /\ \E n \in 0..MaxNames : \E p \in SeededShuffles(n) :
         /\ tree = [BaseTree EXCEPT
                      !.pexels = {PexelsSet("s1", {NumName(i) : i \in 1..n})}]
         /\ lists = [NoLists EXCEPT !.pexels_names = [i \in 1..n |-> NumName(i)]]
         /\ shuf = [NoShuf EXCEPT !.pexels = p]
    /\ pc = "pexels"
    /\ run = 2
    /\ todo = {}
    /\ cur = Idle
    /\ skip_imgs = {}
    /\ images = <<>>
    /\ labels = <<>>
    /\ manifest = NoManifest
    /\ yaml = NoYaml
    /\ prev = NoPrev
    /\ geo = NoGeo

SplitNext == PexelsSplit

SpecSplit == SplitInit /\ [][SplitNext]_vars

----------------------------------------------------------------------------
(* Properties *)

LandmarkDs == {"helen", "afw", "menpo", "lapa"}

LandmarkLabels == {f \in DOMAIN labels : labels[f].ds \in LandmarkDs}

\* every row of every label file a landmark pass wrote
PoolRows == UNION {{labels[f].rows[i] : i \in DOMAIN labels[f].rows} : f \in LandmarkLabels}

ManifestsWritten == manifest.trainWritten /\ manifest.valWritten

\* C1: in every landmark pass a semantic class gets the same class id (eye,
\* nose, mouth, eyebrow have one id each, whatever the key order of the
\* dataset's table), jaw gets none, and data.yaml's names maps each id to
\* the class it was written for.
C1_ClassIdConsistency ==
    /\ \A r1, r2 \in PoolRows : r1.part = r2.part => r1.box.class = r2.box.class
    /\ \A r \in PoolRows : r.part \in {"eye", "nose", "mouth", "eyebrow"}
    /\ yaml.written =>
         /\ \A r \in PoolRows : yaml.names[r.box.class] = r.part
         /\ \A i \in DOMAIN yaml.names : yaml.names[i] # "jaw"

\* label files of all four landmark datasets (Menpo2D profile included, LaPa
\* with its other key order) are in the pool and data.yaml is written
C1_Witness ==
    /\ yaml.written
    /\ \A ds \in LandmarkDs : \E f \in LandmarkLabels : labels[f].ds = ds
    /\ \E f \in LandmarkLabels : labels[f].ds = "menpo" /\ Len(labels[f].rows) = 4
    /\ \E r \in PoolRows : r.part = "eyebrow" /\ r.box.class = 3

IdsOf(entries, ds) == {entries[i].id : i \in {j \in DOMAIN entries : entries[j].ds = ds}}

\* C2: after a complete run no image identifier of a dataset pass is listed
\* in both the train and the val manifest.
C2_Disjoint ==
    ManifestsWritten =>
        \A ds \in {"helen", "pexels", "afw", "menpo", "lapa", "fasseg"} :
            IdsOf(manifest.train, ds) \cap IdsOf(manifest.val, ds) = {}

\* C3: after a complete run every manifest entry names an image file and a
\* label file that are in the unified pool.
C3_ManifestSound ==
    (run = 1 /\ ManifestsWritten) =>
        \A i \in DOMAIN (manifest.train \o manifest.val) :
            LET e == (manifest.train \o manifest.val)[i]
            IN e.img \in DOMAIN images /\ e.label \in DOMAIN labels

\* Helen images that share their img_id with another listed image
HelenMultiFace == {n \in HelenNames : face_count(HelenNames, img_id(n)) > 1}

HelenAnnotated == {n \in HelenNames : \E ann \in tree.helen.anns : ann.img \o JPG = n}

\* the Helen pass copied the image and wrote its label file
HelenProcessed(n) ==
    /\ n \in DOMAIN images
    /\ images[n].ds = "helen"
    /\ (splitext_root(n) \o TXT) \in DOMAIN labels
    /\ labels[splitext_root(n) \o TXT].ds = "helen"

\* the Helen pass put neither the image nor a label file in the pools (a
\* file of that name may come from another dataset's pass)
HelenAbsent(n) ==
    /\ n \in DOMAIN images => images[n].ds # "helen"
    /\ (splitext_root(n) \o TXT) \in DOMAIN labels =>
          labels[splitext_root(n) \o TXT].ds # "helen"

HelenUnlisted(n) ==
    \A i \in DOMAIN (manifest.train \o manifest.val) :
        (manifest.train \o manifest.val)[i].id # splitext_root(n)

HelenPassOver == pc = "pexels" /\ run = 1

\* C4 as stated: no member of a multi-face group is copied, labelled or
\* listed, and every annotated image of a single-face group is processed.
C4_AsStated ==
    /\ HelenPassOver =>
         /\ \A n \in HelenMultiFace : HelenAbsent(n)
         /\ \A n \in HelenAnnotated \ HelenMultiFace : HelenProcessed(n)
    /\ ManifestsWritten => \A n \in HelenMultiFace : HelenUnlisted(n)

\* C4 amended: no member of a multi-face group and no image with a face
\* index above 1 is copied, labelled or listed; every other annotated Helen
\* image (single-face group, face index 1) is processed.
C4_MultiFaceExclusion ==
    /\ HelenPassOver =>
         /\ \A n \in HelenMultiFace \cup {m \in HelenNames : face_id(m) > 1} :
              HelenAbsent(n)
         /\ \A n \in HelenAnnotated \ HelenMultiFace :
              face_id(n) <= 1 => HelenProcessed(n)
    /\ ManifestsWritten =>
         \A n \in HelenMultiFace \cup {m \in HelenNames : face_id(m) > 1} :
              HelenUnlisted(n)

\* the Helen pass is over on a tree with an annotated two-face group, an
\* annotated lone image of face index 2 and a processed single-face image
C4_Witness ==
    /\ HelenPassOver
    /\ \E n \in HelenMultiFace \cap HelenAnnotated : HelenAbsent(n)
    /\ \E n \in HelenAnnotated \ HelenMultiFace : face_id(n) > 1 /\ HelenAbsent(n)
    /\ \E n \in HelenAnnotated \ HelenMultiFace : face_id(n) = 1 /\ HelenProcessed(n)

\* number of contour groups the AFW pass supplies for base name n: those of
\* every face file the glob of n yields
AfwSupplied(n) == Cardinality(GlobJpg(n)) * Len(ContourGroups(part_points_afw))

\* the table a Menpo2D label file was made with
MenpoTableOf(path) ==
    LET all == tree.menpo.train \o tree.menpo.test
        i == CHOOSE j \in DOMAIN all : all[j].path = path
    IN part_points_menpo(MenpoType(all[i].lm))

\* number of rows of a complete label file of one face
CompleteRows(f) ==
    CASE labels[f].ds = "helen" -> Len(ContourGroups(part_points_helen))
      [] labels[f].ds = "afw" -> Len(ContourGroups(part_points_afw))
      [] labels[f].ds = "menpo" -> Len(ContourGroups(MenpoTableOf(labels[f].from)))
      [] labels[f].ds = "lapa" -> Len(ContourGroups(part_points_lapa))

\* C5: when the landmark passes are over, the label file of every image
\* holds as many rows as contour groups were supplied for that image, AFW
\* base images with several face files included.
C5_NoSilentDrops ==
    (run = 1 /\ pc = "done") =>
        \A f \in LandmarkLabels :
            Len(labels[f].rows) =
                IF labels[f].ds = "afw" THEN AfwSupplied(splitext_root(f))
                ELSE CompleteRows(f)

Rows(lbls) == [f \in DOMAIN lbls |-> lbls[f].rows]

\* C6: a second run over the same tree ends with the label files and the
\* manifests of the first run.
C6_Idempotent ==
    (run = 2 /\ pc = "done") =>
        /\ Rows(labels) = Rows(prev.labels)
        /\ manifest = prev.manifest

\* multiplication of the fraction q = <<numerator, denominator>> by k
Times(q, k) == <<q[1] * k, q[2]>>

\* a <= b, a = b for fractions with positive denominators
Leq(a, b) == a[1] * b[2] <= b[1] * a[2]

Eq(a, b) == a[1] * b[2] = b[1] * a[2]

\* a - b / 2 and a + b / 2
MinusHalf(a, b) == <<2 * a[1] * b[2] - b[1] * a[2], 2 * a[2] * b[2]>>

PlusHalf(a, b) == <<2 * a[1] * b[2] + b[1] * a[2], 2 * a[2] * b[2]>>

Whole(k) == <<k, 1>>

GeoCase == geo.done /\ Cardinality(SeqToSet(geo.contour)) >= 2

Used(table) ==
    UNION {UNION {SeqToSet(table[k][2][j]) : j \in DOMAIN table[k][2]}
             : k \in {i \in DOMAIN table : table[i][1] # "jaw"}}

\* the landmark file lacks a point the table uses, or has an unparsable one
Malformed(lm, table) == \E i \in Used(table) : i >= lm.n \/ i = lm.bad

\* some sample the run comes to is missing or malformed
TreeRaises ==
    \/ \E ann \in tree.helen.anns :
         /\ (ann.img \o JPG) \notin SkipList(HelenNames)
         /\ (ann.img \o JPG) \notin HelenNames \/ Malformed(ann.lm, part_points_helen)
    \/ \E j \in tree.afw.jpgs :
         LET n == split_first(basename(j.name), "_")
         IN \/ Cardinality(GlobPts(n)) < Cardinality(GlobJpg(n))
            \/ /\ Cardinality(GlobPts(n)) = Cardinality(GlobJpg(n))
               /\ \E q \in GlobPts(n) : Malformed(q.lm, part_points_afw)
    \/ \E i \in DOMAIN (tree.menpo.train \o tree.menpo.test) :
         LET line == (tree.menpo.train \o tree.menpo.test)[i]
         IN \/ line.img = NoImg
            \/ line.lm.bad # -1
            \/ Malformed(line.lm, part_points_menpo(MenpoType(line.lm)))
    \/ \E f \in LapaSplitImages("train") \cup LapaSplitImages("val") :
         f.lm = NoLm \/ Malformed(f.lm, part_points_lapa)

DsRank(ds) == CASE ds = "helen" -> 1 [] ds = "pexels" -> 2 [] ds = "afw" -> 3
                [] ds = "menpo" -> 4 [] ds = "lapa" -> 5 [] ds = "fasseg" -> 6

\* C8 as stated: a missing or malformed sample never aborts the run.
C8_AsStated == pc # "aborted"

\* C8 amended: a sample that raises aborts the run at that sample: nothing
\* of a later dataset is processed and neither the manifests nor data.yaml
\* are written; the manifests are written only when no sample raises.
C8_AbortsRun ==
    /\ (manifest.trainWritten \/ manifest.valWritten \/ yaml.written) => ~TreeRaises
    /\ pc = "aborted" =>
         /\ TreeRaises
         /\ ~manifest.trainWritten /\ ~manifest.valWritten /\ ~yaml.written
         /\ \A f \in DOMAIN images : DsRank(images[f].ds) <= DsRank(cur.ds)
         /\ \A f \in DOMAIN labels : DsRank(labels[f].ds) <= DsRank(cur.ds)

\* a Menpo2D sample raised after Helen, Pexels and AFW had been processed
C8_Witness ==
    /\ pc = "aborted"
    /\ cur.ds = "menpo"
    /\ \E f \in DOMAIN labels : labels[f].ds = "afw"
    /\ \E f \in DOMAIN labels : labels[f].ds = "helen"

AllComplete == \A f \in LandmarkLabels : Len(labels[f].rows) = CompleteRows(f)

Orphans == {f \in DOMAIN images : (splitext_root(f) \o TXT) \notin DOMAIN labels}

FailedImageOnDisk ==
    \/ cur.ds = "afw"
    \/ cur.ds = "lapa"
    \/ /\ cur.ds = "menpo"
       /\ \E i \in DOMAIN (tree.menpo.train \o tree.menpo.test) :
            LET line == (tree.menpo.train \o tree.menpo.test)[i]
            IN basename(line.path) = cur.failed /\ line.img # NoImg

HasExcludePrefix(f) == \E k \in DOMAIN exclude_prefix : StartsWith(f, exclude_prefix[k])

\* the LaPa pass left the file out of both pools and out of the train list
LapaLeftOut(f) ==
    /\ f.name \notin DOMAIN images
    /\ (splitext_root(f.name) \o TXT) \notin DOMAIN labels
    /\ splitext_root(f.name) \notin IdsOf(manifest.train, "lapa")

LapaProcessed(f, entries) ==
    /\ f.name \in DOMAIN images /\ images[f.name].ds = "lapa"
    /\ (splitext_root(f.name) \o TXT) \in DOMAIN labels
    /\ labels[splitext_root(f.name) \o TXT].ds = "lapa"
    /\ splitext_root(f.name) \in IdsOf(entries, "lapa")

\* C11: after a complete run a LaPa training image is left out of the image
\* pool, the label pool and the train list exactly when its file name starts
\* with HELEN_, IBUG_, AFW_ or LFPW_; every other training image and every
\* val image is processed and listed.
C11_CrossListing ==
    (pc = "done" /\ run = 1) =>
        /\ \A f \in tree.lapa.train :
             IF HasExcludePrefix(f.name) THEN LapaLeftOut(f)
             ELSE LapaProcessed(f, manifest.train)
        /\ \A f \in tree.lapa.val : LapaProcessed(f, manifest.val)

\* the train and val name lists the passes of the other datasets built
ListsOf(ds) ==
    CASE ds = "pexels" -> [train |-> lists.pexels_train, val |-> lists.pexels_val]
      [] ds = "afw" -> [train |-> lists.afw_train, val |-> lists.afw_val]
      [] ds = "menpo" -> [train |-> lists.menpo_train, val |-> lists.menpo_test]
      [] ds = "lapa" -> [train |-> lists.lapa_train, val |-> lists.lapa_val]
      [] ds = "fasseg" -> [train |-> lists.fasseg_train, val |-> lists.fasseg_val]

\* C12: the Helen skip list touches Helen names only: every identifier that
\* the Pexels, AFW, Menpo2D, LaPa or FASSEG pass put in its train (val) list
\* is written to the train (val) manifest, whatever its name.
C12_SkipListConfined ==
    ManifestsWritten =>
        \A ds \in {"pexels", "afw", "menpo", "lapa", "fasseg"} :
            /\ IdsOf(manifest.train, ds) = SeqToSet(ListsOf(ds).train)
            /\ IdsOf(manifest.val, ds) = SeqToSet(ListsOf(ds).val)

Count(seq, x) == Cardinality({i \in DOMAIN seq : seq[i] = x})

\* floor(0.7 * n)
FloorPct(n) == (TrainPctNum * n) \div TrainPctDen

\* the label files of the Pexels sub-collections, one collected name each
PexelsFiles == UNION {{<<s.name, l>> : l \in s.labels} : s \in tree.pexels}

PexelsCollected(x) ==
    Cardinality({f \in PexelsFiles : unidecode(splitext_root(f[2])) = x})

\* the base names of the AFW images, each collected once
AfwCollected == {split_first(basename(j.name), "_") : j \in tree.afw.jpgs}

PexelsSplitMade == pc \notin {"start", "helen", "helen_save", "pexels", "aborted"}

AfwSplitMade == PexelsSplitMade /\ pc # "afw_names"

\* C13: once a random split is made, the train list holds floor(0.7 * n) of
\* the n collected names, the val list the other n - floor(0.7 * n), and
\* train followed by val holds every collected name as often as it was
\* collected and no other name (Pexels and AFW).
C13_SplitShape ==
    /\ PexelsSplitMade =>
         LET n == Cardinality(PexelsFiles)
             both == lists.pexels_train \o lists.pexels_val
         IN /\ Len(lists.pexels_train) = FloorPct(n)
            /\ Len(lists.pexels_val) = n - FloorPct(n)
            /\ \A x \in SeqToSet(both) : Count(both, x) = PexelsCollected(x)
            /\ \A f \in PexelsFiles : unidecode(splitext_root(f[2])) \in SeqToSet(both)
    /\ AfwSplitMade =>
         LET n == Cardinality(AfwCollected)
             both == lists.afw_train \o lists.afw_val
         IN /\ Len(lists.afw_train) = FloorPct(n)
            /\ Len(lists.afw_val) = n - FloorPct(n)
            /\ \A x \in SeqToSet(both) : Count(both, x) = 1
            /\ SeqToSet(both) = AfwCollected

====
